---------------------------- MODULE Spec2Model ----------------------------
(***************************************************************************)
(* Keyword clustering worker (apps/workers/workers/cluster_worker.py).     *)
(*                                                                         *)
(* The model follows ClusterWorker.process_keywords: fetch the unclustered *)
(* keywords of a scope, embed the terms, choose k and partition, then save *)
(* the clusters in one database session.  The relational store is the      *)
(* keywords table (only its cluster_id column is written by the worker)    *)
(* and the clusters table.  Invocations of different worker processes may  *)
(* overlap; each holds its uncommitted writes in its own session until     *)
(* commit.                                                                 *)
(*                                                                         *)
(* Library calls are modelled by what the code relies on:                  *)
(*  - TfidfVectorizer: lower-cases, keeps tokens of two or more            *)
(*    characters, drops English stop words, builds unigrams and bigrams,   *)
(*    raises on an empty vocabulary.  A row is kept as its feature counts; *)
(*    the idf weighting and the L2 normalisation map equal count rows to   *)
(*    equal rows and different count rows to different rows.               *)
(*  - KMeans: the labels are the nearest final centre of each row, hence a *)
(*    function of the row; which function is left open.  The inertia of a  *)
(*    fit is an open non-negative number.  A fit raises when there are     *)
(*    fewer rows than clusters.                                            *)
(*  - The SQLAlchemy session (autocommit=False): statements of a session   *)
(*    become visible to others at commit; leaving the with-block without   *)
(*    commit discards them.  An UPDATE waits for rows another open session *)
(*    has updated.                                                         *)
(***************************************************************************)
EXTENDS Integers, Sequences, FiniteSets, TLC

(***************************************************************************)
(* Bounds of the model.                                                    *)
(***************************************************************************)
MaxRuns == 2        \* invocations of process_keywords in one behaviour
MaxClock == 1       \* last clock second reached
MaxInertia == 1     \* inertia values are drawn from 0..MaxInertia
MaxKeywords == 10   \* keyword lists of every length up to MaxKeywords
MaxFreeSamples == 3 \* inertia samples of a call that take any value
MaxAccesses == 2    \* max_accesses is drawn from 0..MaxAccesses
MaxUrls == 1        \* rows of the signed_urls table
MaxCalls == 2       \* calls of validate_signed_url per caller

(***************************************************************************)
(* Program constants.                                                      *)
(***************************************************************************)
default_min_cluster_size == 3
max_clusters == 20
default_difficulty == 50

Workers == {"w1", "w2"}

\* SQL NULL in a numeric column, in a text column, in the cluster_id column.
NullInt == -1
NullText == "NULL"
NullId == <<>>

\* The values self.min_cluster_size is configured with.
MinClusterSizes == {2, default_min_cluster_size}

(***************************************************************************)
(* The keywords table.  Rows are created by a separate ingestion process;  *)
(* a term is unique per organization and project only, so "running shoes"  *)
(* occurs in two projects of o1.  Organization o3 holds the six keywords   *)
(* of the documented example.                                              *)
(***************************************************************************)
KeywordIds == 1..12

KeywordRow(id) ==
    CASE id = 1 -> [org_id |-> "o1", project_id |-> "p1",
                    term |-> <<"running", "shoes">>,
                    search_volume |-> 900, difficulty |-> 40, cpc |-> 3]
      [] id = 2 -> [org_id |-> "o1", project_id |-> "p1",
                    term |-> <<"Running", "shoes", "for", "men">>,
                    search_volume |-> 0, difficulty |-> 0, cpc |-> 0]
      [] id = 3 -> [org_id |-> "o1", project_id |-> "p1",
                    term |-> <<"hiking", "boots">>,
                    search_volume |-> NullInt, difficulty |-> NullInt,
                    cpc |-> NullInt]
      [] id = 4 -> [org_id |-> "o1", project_id |-> "p2",
                    term |-> <<"running", "shoes">>,
                    search_volume |-> 600, difficulty |-> 60, cpc |-> 4]
      [] id = 5 -> [org_id |-> "o1", project_id |-> "p2",
                    term |-> <<"the", "running", "shoes">>,
                    search_volume |-> 500, difficulty |-> 20, cpc |-> 1]
      [] id = 6 -> [org_id |-> "o2", project_id |-> "p3",
                    term |-> <<"the">>,
                    search_volume |-> 400, difficulty |-> 50, cpc |-> 1]
      [] id = 7 -> [org_id |-> "o3", project_id |-> "p4",
                    term |-> <<"best", "running", "shoes">>,
                    search_volume |-> 60, difficulty |-> 10, cpc |-> 1]
      [] id = 8 -> [org_id |-> "o3", project_id |-> "p4",
                    term |-> <<"running", "shoes", "for", "men">>,
                    search_volume |-> 50, difficulty |-> 20, cpc |-> 2]
      [] id = 9 -> [org_id |-> "o3", project_id |-> "p4",
                    term |-> <<"top", "hiking", "boots">>,
                    search_volume |-> 40, difficulty |-> 30, cpc |-> 3]
      [] id = 10 -> [org_id |-> "o3", project_id |-> "p4",
                     term |-> <<"hiking", "boots", "review">>,
                     search_volume |-> 30, difficulty |-> 40, cpc |-> 4]
      [] id = 11 -> [org_id |-> "o3", project_id |-> "p4",
                     term |-> <<"marathon", "training", "plan">>,
                     search_volume |-> 20, difficulty |-> 50, cpc |-> 5]
      [] OTHER   -> [org_id |-> "o3", project_id |-> "p4",
                     term |-> <<"marathon", "training", "tips">>,
                     search_volume |-> 10, difficulty |-> 60, cpc |-> 6]

\* The scopes process_keywords is invoked with: (org_id, project_id or None).
Scopes == {<<"o1", NullText>>, <<"o1", "p1">>, <<"o1", "p2">>, <<"o2", NullText>>}

VARIABLES
    keyword_cluster_id,  \* keywords.cluster_id of every row, as committed
    clusters_table,      \* the committed rows of the clusters table
    run,                 \* per worker: the invocation of process_keywords
    clock,               \* the latest reading of datetime.utcnow(), in seconds
    min_cluster_size,    \* self.min_cluster_size
    nruns,               \* invocations started so far
    created,             \* every KeywordCluster object constructed so far
    seeded,              \* the outcome of the seeded fits, per input matrix
    selection,           \* the choice of k inside one call of cluster_keywords
    naming,              \* one call of _generate_cluster_name
    signed_urls,         \* the rows of the signed_urls table, by id
    validation,          \* per caller: its call of validate_signed_url
    accepted             \* per URL id: the calls that returned True so far

vars == <<keyword_cluster_id, clusters_table, run, clock, min_cluster_size,
          nruns, created, seeded, selection, naming, signed_urls,
          validation, accepted>>

\* The state of the security worker, untouched by the cluster worker.
securityVars == <<signed_urls, validation, accepted>>

(***************************************************************************)
(* Helpers on sequences and sets.                                          *)
(***************************************************************************)
Min(a, b) == IF a < b THEN a ELSE b

Range(s) == {s[i] : i \in DOMAIN s}

RECURSIVE SumSeq(_)
SumSeq(s) == IF s = <<>> THEN 0 ELSE Head(s) + SumSeq(Tail(s))

(***************************************************************************)
(* get_keywords_for_clustering                                             *)
(***************************************************************************)
\* Python's `value or default`: the default replaces None and every falsy
\* value, 0 and 0.0 included.
OrDefault(value, default) ==
    IF value = NullInt \/ value = 0 THEN default ELSE value

\* Mutant: the WHERE clause lacks "cluster_id IS NULL".
FetchMatchesClustered(cluster_id, org_id, project_id) ==
    {id \in KeywordIds :
        /\ KeywordRow(id).org_id = org_id
        /\ (KeywordRow(id).project_id = project_id \/ project_id = NullText)}

\* The WHERE clause of the fetch, evaluated on the committed table.
FetchMatches(cluster_id, org_id, project_id) ==
    {id \in KeywordIds :
        /\ KeywordRow(id).org_id = org_id
        /\ (KeywordRow(id).project_id = project_id \/ project_id = NullText)
        /\ cluster_id[id] = NullId}

keyword_data(id) ==
    [id |-> id,
     term |-> KeywordRow(id).term,
     search_volume |-> OrDefault(KeywordRow(id).search_volume, 0),
     difficulty |-> OrDefault(KeywordRow(id).difficulty, default_difficulty),
     cpc |-> OrDefault(KeywordRow(id).cpc, 0)]

RECURSIVE OrderBySearchVolume(_)
\* ORDER BY search_volume DESC NULLS LAST over the rows S: every order the
\* database may return them in (rows with equal keys come in any order).
OrderBySearchVolume(S) ==
    IF S = {} THEN {<<>>}
    ELSE LET sv(id) == KeywordRow(id).search_volume
             first == {m \in S : \A o \in S :
                          \/ sv(o) = NullInt
                          \/ (sv(m) # NullInt /\ sv(m) >= sv(o))}
         IN  UNION {{<<m>> \o r : r \in OrderBySearchVolume(S \ {m})} :
                    m \in first}

\* The possible results of the query, each row turned into a keyword_data
\* dict.
get_keywords_for_clustering(cluster_id, org_id, project_id) ==
    {[i \in DOMAIN o |-> keyword_data(o[i])] :
        o \in OrderBySearchVolume(FetchMatches(cluster_id, org_id, project_id))}

(***************************************************************************)
(* create_embeddings                                                       *)
(***************************************************************************)
\* str.lower() on the words that occur in the model.
Lower(word) ==
    CASE word = "Running" -> "running"
      [] word = "AI"      -> "ai"
      [] OTHER            -> word

\* stop_words='english', restricted to the words of the keywords table.
StopWords == {"the", "for", "top"}

\* The vectorizer's analyzer: lower-case, tokens of two or more characters,
\* stop words removed.
Tokens(term) ==
    SelectSeq([i \in DOMAIN term |-> Lower(term[i])],
              LAMBDA w : Len(w) >= 2 /\ w \notin StopWords)

\* ngram_range=(1, 2): the unigrams and bigrams of a token list.
Ngrams(tokens) ==
    {<<tokens[i]>> : i \in DOMAIN tokens}
        \cup {<<tokens[i], tokens[i + 1]>> : i \in 1..(Len(tokens) - 1)}

NgramCount(tokens, f) ==
    IF Len(f) = 1
    THEN Cardinality({i \in DOMAIN tokens : tokens[i] = f[1]})
    ELSE Cardinality({i \in 1..(Len(tokens) - 1) :
                         tokens[i] = f[1] /\ tokens[i + 1] = f[2]})

\* min_df=1: every n-gram that occurs in some term is a feature.
Vocabulary(terms) == UNION {Ngrams(Tokens(terms[i])) : i \in DOMAIN terms}

\* Mutant: fit_transform never raises.
EmbeddingRaisesNever(terms) == FALSE

\* fit_transform raises ValueError("empty vocabulary; ...") when no term
\* yields a token.
EmbeddingRaises(terms) == Vocabulary(terms) = {}

\* The N x D matrix, one row per term.
create_embeddings(terms) ==
    [i \in DOMAIN terms |->
        [f \in Vocabulary(terms) |-> NgramCount(Tokens(terms[i]), f)]]

(***************************************************************************)
(* _find_elbow_point                                                       *)
(***************************************************************************)
\* np.diff
Diff(s) == [i \in 1..(Len(s) - 1) |-> s[i + 1] - s[i]]

\* np.argmin: the first (0-based) index of the minimum.
ArgMin(s) ==
    (CHOOSE i \in DOMAIN s :
        /\ \A j \in DOMAIN s : s[i] <= s[j]
        /\ \A j \in 1..(i - 1) : s[j] > s[i]) - 1

\* Mutant: the smallest candidate is never the default.
find_elbow_point_next(k_values, inertias) ==
    IF Len(inertias) < 3
    THEN IF k_values # <<>> THEN k_values[1] + 1 ELSE 2
    ELSE k_values[ArgMin(Diff(Diff(inertias))) + 2]

\* Mutant: the index of the minimum is offset by two.
find_elbow_point_offset_two(k_values, inertias) ==
    IF Len(inertias) < 3
    THEN IF k_values # <<>> THEN k_values[1] ELSE 2
    ELSE k_values[ArgMin(Diff(Diff(inertias))) + 3]

\* Mutant: the index of the minimum is used without the offset of one.
find_elbow_point_no_offset(k_values, inertias) ==
    IF Len(inertias) < 3
    THEN IF k_values # <<>> THEN k_values[1] ELSE 2
    ELSE k_values[ArgMin(Diff(Diff(inertias))) + 1]

\* Mutant: with fewer than three samples the largest candidate is returned.
find_elbow_point_largest(k_values, inertias) ==
    IF Len(inertias) < 3
    THEN IF k_values # <<>> THEN k_values[Len(k_values)] ELSE 2
    ELSE k_values[ArgMin(Diff(Diff(inertias))) + 2]

find_elbow_point(k_values, inertias) ==
    IF Len(inertias) < 3
    THEN IF k_values # <<>> THEN k_values[1] ELSE 2
    ELSE LET diffs == Diff(inertias)
             diff_diffs == Diff(diffs)
             elbow_idx == ArgMin(diff_diffs) + 1
         IN  k_values[elbow_idx + 1]

(***************************************************************************)
(* cluster_keywords                                                        *)
(***************************************************************************)
\* Mutant: max_k is not floored at 2.
MaxKUnfloored(n_keywords, mcs) == Min(max_clusters, n_keywords \div mcs)

\* max_k = min(self.max_clusters, n_keywords // self.min_cluster_size),
\* floored at 2.
MaxK(n_keywords, mcs) ==
    LET max_k == Min(max_clusters, n_keywords \div mcs)
    IN  IF max_k < 2 THEN 2 ELSE max_k

\* Mutant: range(2, max_k), which leaves max_k out.
KValuesExclusive(n_keywords, mcs) ==
    [j \in 1..(MaxK(n_keywords, mcs) - 2) |-> j + 1]

\* range(2, max_k + 1)
KValues(n_keywords, mcs) ==
    [j \in 1..(MaxK(n_keywords, mcs) - 1) |-> j + 1]

\* KMeans(n_clusters=k).fit raises ValueError when n_samples < n_clusters.
FitRaises(embeddings, k) == Len(embeddings) < k

\* The label vectors a fit with k clusters can return: every row gets the
\* label of its nearest final centre, so equal rows get equal labels; empty
\* clusters are relocated, so every label is used when there are at least k
\* distinct rows.
KMeansLabels(embeddings, k) ==
    LET distinct == Cardinality(Range(embeddings))
    IN  {labels \in [DOMAIN embeddings -> 0..(k - 1)] :
            /\ \A a, b \in DOMAIN embeddings :
                  embeddings[a] = embeddings[b] => labels[a] = labels[b]
            /\ Cardinality(Range(labels)) = Min(k, distinct)}

\* The outcomes the fits of lines 131-143 can have on a matrix: the k the
\* elbow selects from the inertias of the candidate fits, and the labels of
\* the final fit.
FitOutcomes(embeddings, k_values) ==
    UNION {{[optimal_k |-> find_elbow_point(k_values, inertias),
             labels |-> labels] :
               labels \in KMeansLabels(embeddings,
                                       find_elbow_point(k_values, inertias))} :
           inertias \in [DOMAIN k_values -> 0..MaxInertia]}

\* Mutant: random_state=None, every fit draws fresh initial centres.
UnseededFits(memo, embeddings, k_values) == FitOutcomes(embeddings, k_values)

\* random_state=42, n_init=10: every fit starts from the same generator
\* state, so its inertia and labels are a function of the matrix and k;
\* memo holds the outcome on the matrices fitted before.
SeededFits(memo, embeddings, k_values) ==
    IF embeddings \in DOMAIN memo THEN {memo[embeddings]}
    ELSE FitOutcomes(embeddings, k_values)

RECURSIVE WhereFrom(_, _, _)
WhereFrom(labels, i, j) ==
    IF j > Len(labels) THEN <<>>
    ELSE (IF labels[j] = i THEN <<j>> ELSE <<>>) \o WhereFrom(labels, i, j + 1)

RECURSIVE WhereUpTo(_, _, _)
WhereUpTo(labels, i, j) ==
    IF j > Len(labels) THEN <<>>
    ELSE (IF labels[j] <= i THEN <<j>> ELSE <<>>) \o WhereUpTo(labels, i, j + 1)

\* Mutant: np.where(cluster_labels <= i).
ClusterIndicesUpTo(labels, i) == WhereUpTo(labels, i, 1)

\* np.where(cluster_labels == i)[0]: the positions labelled i, ascending.
ClusterIndices(labels, i) == WhereFrom(labels, i, 1)

(***************************************************************************)
(* _generate_cluster_name, _generate_cluster_description                   *)
(***************************************************************************)
RECURSIVE Flatten(_)
\* all_words: the lower-cased whitespace-separated words of every term.
Flatten(terms) ==
    IF terms = <<>> THEN <<>>
    ELSE [i \in DOMAIN Head(terms) |-> Lower(Head(terms)[i])]
             \o Flatten(Tail(terms))

\* word_counts: the count of a word over all_words.
WordCount(all_words, word) ==
    Cardinality({i \in DOMAIN all_words : all_words[i] = word})

RECURSIVE DedupKeepsShort(_, _)
\* Mutant: the filter is len(word) > 1.
DedupKeepsShort(all_words, seen) ==
    IF all_words = <<>> THEN <<>>
    ELSE LET w == Head(all_words)
         IN  IF Len(w) > 1 /\ w \notin seen
             THEN <<w>> \o DedupKeepsShort(Tail(all_words), seen \cup {w})
             ELSE DedupKeepsShort(Tail(all_words), seen)

RECURSIVE Dedup(_, _)
\* The keys of word_counts in insertion order: words longer than two
\* characters, by first occurrence.
Dedup(all_words, seen) ==
    IF all_words = <<>> THEN <<>>
    ELSE LET w == Head(all_words)
         IN  IF Len(w) > 2 /\ w \notin seen
             THEN <<w>> \o Dedup(Tail(all_words), seen \cup {w})
             ELSE Dedup(Tail(all_words), seen)

\* sorted(..., key=count, reverse=True): stable, so equal counts keep the
\* insertion order.  The key at position i goes to the place after all
\* keys with a larger count and all earlier keys with the same count.
SortedByCount(keys, all_words) ==
    LET place(i) ==
            1 + Cardinality({j \in DOMAIN keys :
                    \/ WordCount(all_words, keys[j])
                           > WordCount(all_words, keys[i])
                    \/ /\ WordCount(all_words, keys[j])
                              = WordCount(all_words, keys[i])
                       /\ j < i})
    IN  [p \in DOMAIN keys |->
            keys[CHOOSE i \in DOMAIN keys : place(i) = p]]

generate_cluster_name(cluster_kws) ==
    LET terms == [j \in DOMAIN cluster_kws |-> cluster_kws[j].term]
        Named(all_words, keys) ==
            LET ranked == SortedByCount(keys, all_words)
                common_words == SubSeq(ranked, 1, Min(3, Len(ranked)))
            IN  IF common_words # <<>>
                THEN <<"Cluster:">> \o common_words
                ELSE <<"Cluster:">> \o terms[1]
    IN  \* all_words and the keys of word_counts are built once
        CHOOSE name \in
            UNION {{Named(all_words, keys) : keys \in {Dedup(all_words, {})}} :
                      all_words \in {Flatten(terms)}} : TRUE

generate_cluster_description(cluster_kws) ==
    LET terms == [j \in DOMAIN cluster_kws |-> cluster_kws[j].term]
    IN  IF Len(terms) <= 3
        THEN [text |-> "Keywords related to: ", count |-> 0,
              terms |-> terms, ellipsis |-> FALSE]
        ELSE [text |-> "Cluster of {count} related keywords including: ",
              count |-> Len(terms),
              terms |-> SubSeq(terms, 1, 3), ellipsis |-> TRUE]

(***************************************************************************)
(* KeywordCluster objects                                                  *)
(***************************************************************************)
\* f"cluster_{i}_{datetime.utcnow().strftime('%Y%m%d_%H%M%S')}": the label
\* and the clock second at which the object is constructed.
ClusterId(i, second) == <<"cluster", i, second>>

\* Mutant: the first value is left out of the sum.
MeanWithoutFirst(values) ==
    [sum |-> SumSeq(Tail(values)), count |-> Len(values)]

\* np.mean, kept as the exact fraction sum / count.
Mean(values) == [sum |-> SumSeq(values), count |-> Len(values)]

KeywordCluster(i, second, cluster_kws) ==
    [id |-> ClusterId(i, second),
     name |-> generate_cluster_name(cluster_kws),
     description |-> generate_cluster_description(cluster_kws),
     keywords |-> [j \in DOMAIN cluster_kws |-> cluster_kws[j].term],
     size |-> Len(cluster_kws),
     avg_search_volume |->
         Mean([j \in DOMAIN cluster_kws |-> cluster_kws[j].search_volume]),
     avg_difficulty |->
         Mean([j \in DOMAIN cluster_kws |-> cluster_kws[j].difficulty]),
     avg_cpc |-> Mean([j \in DOMAIN cluster_kws |-> cluster_kws[j].cpc])]

\* Mutant: groups one short of min_cluster_size are kept.
KeepsGroupOneShort(labels, i, mcs) ==
    Len(ClusterIndices(labels, i)) >= mcs - 1

\* Mutant: every non-empty group is kept.
KeepsGroupNonEmpty(labels, i, mcs) == Len(ClusterIndices(labels, i)) >= 1

\* The test of line 150 on the group labelled i.
KeepsGroup(labels, i, mcs) == Len(ClusterIndices(labels, i)) >= mcs

RECURSIVE CreateClusters(_, _, _, _, _)
\* The loop "for i in range(optimal_k)" from label i on: seconds[i + 1] is
\* the clock second read when the object for label i is constructed.
CreateClusters(keywords, labels, seconds, mcs, i) ==
    IF i >= Len(seconds) THEN <<>>
    ELSE LET cluster_indices == ClusterIndices(labels, i)
             cluster_kws == [j \in DOMAIN cluster_indices |->
                                keywords[cluster_indices[j]]]
         IN  (IF KeepsGroup(labels, i, mcs)
              THEN <<KeywordCluster(i, seconds[i + 1], cluster_kws)>>
              ELSE <<>>)
                 \o CreateClusters(keywords, labels, seconds, mcs, i + 1)

(***************************************************************************)
(* The state of one invocation of process_keywords.                        *)
(***************************************************************************)
NoResult == [clusters_created |-> -1, keywords_processed |-> -1,
             clusters |-> <<>>]

NoWrites == [id \in KeywordIds |-> NullId]

IdleRun ==
    [pc |-> "idle",            \* idle, fetched, saving, done, failed
     no |-> 0,                 \* serial number of the invocation
     org_id |-> NullText, project_id |-> NullText,
     keywords |-> <<>>,        \* the fetched keyword_data dicts
     embedded |-> FALSE,       \* create_embeddings was called
     fits |-> 0,               \* KMeans fits performed
     optimal_k |-> 0,
     labels |-> <<>>,          \* cluster_labels of the final fit
     clusters |-> <<>>,        \* the KeywordCluster objects
     ci |-> 0, ki |-> 0,       \* position in the loops of save_clusters
     tx_clusters |-> {},       \* rows inserted by the open session
     tx_keywords |-> NoWrites, \* cluster_id written by the open session
     cluster_ids |-> <<>>,
     updates |-> 0,            \* UPDATE statements issued by the session
     wrote |-> FALSE,          \* an INSERT and an UPDATE were issued
     error |-> "",             \* which stage raised
     result |-> NoResult]      \* the returned summary

\* The locals of cluster_keywords while it chooses k.
NoSelection ==
    [pc |-> "none",            \* none, called, fitting, selected, returned
     n_keywords |-> 0,
     k_values |-> <<>>,
     inertias |-> <<>>,
     optimal_k |-> 0]

\* One call of _generate_cluster_name: its argument and what it returns.
NoNaming ==
    [pc |-> "none",            \* none, called, named
     keywords |-> <<>>,
     name |-> <<>>]

\* The processes that call validate_signed_url.
Callers == {"c1", "c2"}

IdleValidation ==
    [pc |-> "idle",            \* idle, count_read, max_read
     url |-> <<>>,
     current_count |-> 0, max_accesses |-> 0,
     calls |-> 0,              \* calls that have returned
     result |-> "none"]        \* what the last call returned

\* The readings of datetime.utcnow() in the loop over the labels: time
\* passes between invocations and between readings, never backwards.
ClockReadings(now, n) ==
    {seconds \in [1..n -> now..MaxClock] :
        \A a, b \in 1..n : a <= b => seconds[a] <= seconds[b]}

Init ==
    /\ keyword_cluster_id = [id \in KeywordIds |-> NullId]
    /\ clusters_table = {}
    /\ run = [w \in Workers |-> IdleRun]
    /\ clock = 0
    /\ min_cluster_size \in MinClusterSizes
    /\ nruns = 0
    /\ created = {}
    /\ seeded = <<>>
    /\ selection = NoSelection
    /\ naming = NoNaming
    /\ signed_urls = <<>>
    /\ validation = [c \in Callers |-> IdleValidation]
    /\ accepted = <<>>

(***************************************************************************)
(* process_keywords, up to the call of save_clusters                       *)
(***************************************************************************)
\* Mutant: the early return is missing.
ReturnsEarlyNever(keywords) == FALSE

\* Line 283, "if not keywords": the early return of the zero summary.
ReturnsEarly(keywords) == keywords = <<>>

Active(w) == run[w].pc \in {"fetched", "saving"}

\* Mutant: an invocation waits until no other invocation is running.
CanInvokeLocked(w) == \A o \in Workers : ~Active(o)

\* A worker process that is not inside process_keywords may invoke it.
CanInvoke(w) == ~Active(w)

\* process_keywords is invoked and the fetch returns.
FetchIn(w, scopes) ==
    /\ CanInvoke(w)
    /\ \E scope \in scopes :
         \E keywords \in get_keywords_for_clustering(keyword_cluster_id,
                                                     scope[1], scope[2]) :
            run' = [run EXCEPT ![w] =
                [IdleRun EXCEPT
                    !.no = nruns + 1,
                    !.org_id = scope[1], !.project_id = scope[2],
                    !.keywords = keywords,
                    !.pc = IF ReturnsEarly(keywords) THEN "done"
                           ELSE "fetched",
                    !.result = IF ReturnsEarly(keywords)
                               THEN [clusters_created |-> 0,
                                     keywords_processed |-> 0,
                                     clusters |-> <<>>]
                               ELSE NoResult]]
    /\ nruns' = nruns + 1
    /\ UNCHANGED <<keyword_cluster_id, clusters_table, clock,
                   min_cluster_size, created, seeded, selection, naming,
                       securityVars>>

Fetch(w) == FetchIn(w, Scopes)

\* process_keywords is invoked and the fetch raises (store unreachable).
FetchRaises(w) ==
    /\ CanInvoke(w)
    /\ \E scope \in Scopes :
         run' = [run EXCEPT ![w] =
             [IdleRun EXCEPT !.no = nruns + 1,
                             !.org_id = scope[1], !.project_id = scope[2],
                             !.pc = "failed", !.error = "fetch"]]
    /\ nruns' = nruns + 1
    /\ UNCHANGED <<keyword_cluster_id, clusters_table, clock,
                   min_cluster_size, created, seeded, selection, naming,
                       securityVars>>

Terms(keywords) == [i \in DOMAIN keywords |-> keywords[i].term]

\* Mutant: the test of line 120 is missing.
TooFewKeywordsNever(n_keywords, mcs) == FALSE

\* Line 120: cluster_keywords returns [] before any fit.
TooFewKeywords(n_keywords, mcs) == n_keywords < mcs

\* create_embeddings, then cluster_keywords on fewer than min_cluster_size
\* keywords, then save_clusters opens its session.
ClusterTooFew(w) ==
    /\ run[w].pc = "fetched"
    /\ ~EmbeddingRaises(Terms(run[w].keywords))
    /\ TooFewKeywords(Len(run[w].keywords), min_cluster_size)
    /\ run' = [run EXCEPT ![w].pc = "saving", ![w].embedded = TRUE,
                          ![w].clusters = <<>>, ![w].ci = 1, ![w].ki = 0]
    /\ UNCHANGED <<keyword_cluster_id, clusters_table, clock,
                   min_cluster_size, nruns, created, seeded, selection, naming,
                       securityVars>>

\* create_embeddings, then cluster_keywords: one fit per candidate k, the
\* elbow, the final fit, the KeywordCluster objects; then save_clusters
\* opens its session.
Cluster(w) ==
    LET keywords == run[w].keywords
        k_values == KValues(Len(keywords), min_cluster_size)
    IN  /\ run[w].pc = "fetched"
        /\ ~EmbeddingRaises(Terms(keywords))
        /\ ~TooFewKeywords(Len(keywords), min_cluster_size)
        /\ \E embeddings \in {create_embeddings(Terms(keywords))} :
              /\ \A j \in DOMAIN k_values : ~FitRaises(embeddings, k_values[j])
              /\ \E fit \in SeededFits(seeded, embeddings, k_values) :
                 \E seconds \in ClockReadings(clock, fit.optimal_k) :
                 \E clusters \in {CreateClusters(keywords, fit.labels, seconds,
                                                  min_cluster_size, 0)} :
                    /\ run' = [run EXCEPT
                           ![w].pc = "saving", ![w].embedded = TRUE,
                           ![w].fits = Len(k_values) + 1,
                           ![w].optimal_k = fit.optimal_k,
                           ![w].labels = fit.labels,
                           ![w].clusters = clusters,
                           ![w].ci = 1, ![w].ki = 0]
                    /\ clock' = seconds[fit.optimal_k]
                    /\ created' = created \cup
                           {[run |-> run[w].no, id |-> clusters[c].id] :
                               c \in DOMAIN clusters}
                    /\ seeded' = (embeddings :> fit) @@ seeded
        /\ UNCHANGED <<keyword_cluster_id, clusters_table, min_cluster_size,
                       nruns, selection, naming, securityVars>>

\* create_embeddings raises (empty vocabulary), or a fit of cluster_keywords
\* raises (fewer rows than clusters, which needs min_cluster_size = 1):
\* process_keywords logs and re-raises.
ComputeRaises(w) ==
    LET keywords == run[w].keywords
        k_values == KValues(Len(keywords), min_cluster_size)
    IN  /\ run[w].pc = "fetched"
        /\ \/ /\ EmbeddingRaises(Terms(keywords))
              /\ run' = [run EXCEPT ![w].pc = "failed",
                                    ![w].error = "embedding",
                                    ![w].embedded = TRUE]
           \/ /\ ~EmbeddingRaises(Terms(keywords))
              /\ ~TooFewKeywords(Len(keywords), min_cluster_size)
              /\ \E j \in DOMAIN k_values :
                    FitRaises(create_embeddings(Terms(keywords)), k_values[j])
              /\ run' = [run EXCEPT ![w].pc = "failed",
                                    ![w].error = "clustering",
                                    ![w].embedded = TRUE]
        /\ UNCHANGED <<keyword_cluster_id, clusters_table, clock,
                       min_cluster_size, nruns, created, seeded, selection, naming,
                       securityVars>>

(***************************************************************************)
(* save_clusters: one session, the statements in program order, one commit *)
(***************************************************************************)
OpenSessions(w) == {o \in Workers \ {w} : run[o].pc = "saving"}

\* The clusters table rejects a second row with the same id.
DuplicateKey(table, id) == \E row \in table : row.id = id

\* Mutant: the UPDATE has no term filter.
UpdateMatchesOrg(keyword, org_id) ==
    {id \in KeywordIds : KeywordRow(id).org_id = org_id}

\* The rows of "UPDATE keywords ... WHERE term = :keyword AND org_id = :org_id".
UpdateMatches(keyword, org_id) ==
    {id \in KeywordIds :
        KeywordRow(id).term = keyword /\ KeywordRow(id).org_id = org_id}

\* The row of "INSERT INTO clusters ...".
ClusterRow(cluster, org_id, project_id) ==
    [id |-> cluster.id, name |-> cluster.name,
     description |-> cluster.description, keywords |-> cluster.keywords,
     org_id |-> org_id, project_id |-> project_id]

\* The keywords table with the session's writes applied.
WithWrites(committed, written) ==
    [id \in KeywordIds |->
        IF written[id] # NullId THEN written[id] ELSE committed[id]]

\* Mutant: the keyword updates of a failed session stay in the table.
AfterRollbackKeepsUpdates(committed, written) == WithWrites(committed, written)

\* What leaving the with-block without commit leaves in the keywords table:
\* the session's statements are discarded.
AfterRollback(committed, written) == committed

\* Mutant: the commit loses the keyword updates.
AfterCommitLosesUpdates(committed, written) == committed

\* What session.commit() leaves in the keywords table.
AfterCommit(committed, written) == WithWrites(committed, written)

\* Mutant: after the last member of a cluster the loop goes on with the
\* members of the next cluster, whose INSERT is skipped.
NextPositionOneInsert(clusters, ci, ki) ==
    IF ki < Len(clusters[ci].keywords)
    THEN [ci |-> ci, ki |-> ki + 1]
    ELSE [ci |-> ci + 1, ki |-> 1]

\* The position after the statement at (ci, ki) of the nested loops.
NextPosition(clusters, ci, ki) ==
    IF ki < Len(clusters[ci].keywords)
    THEN [ci |-> ci, ki |-> ki + 1]
    ELSE [ci |-> ci + 1, ki |-> 0]

\* The INSERT of the current cluster succeeds.
SaveInsert(w) ==
    LET r == run[w]
        cluster == r.clusters[r.ci]
    IN  /\ r.pc = "saving" /\ r.ci <= Len(r.clusters) /\ r.ki = 0
        /\ \A o \in OpenSessions(w) :
              ~DuplicateKey(run[o].tx_clusters, cluster.id)
        /\ ~DuplicateKey(clusters_table \cup r.tx_clusters, cluster.id)
        /\ LET pos == NextPosition(r.clusters, r.ci, 0)
           IN  run' = [run EXCEPT
                   ![w].tx_clusters = r.tx_clusters \cup
                       {ClusterRow(cluster, r.org_id, r.project_id)},
                   ![w].cluster_ids = Append(r.cluster_ids, cluster.id),
                   ![w].ci = pos.ci, ![w].ki = pos.ki]
        /\ UNCHANGED <<keyword_cluster_id, clusters_table, clock,
                       min_cluster_size, nruns, created, seeded, selection, naming,
                       securityVars>>

\* The UPDATE for the current member term.
SaveUpdate(w) ==
    LET r == run[w]
        cluster == r.clusters[r.ci]
        cluster_id == r.cluster_ids[Len(r.cluster_ids)]
        rows == UpdateMatches(cluster.keywords[r.ki], r.org_id)
    IN  /\ r.pc = "saving" /\ r.ci <= Len(r.clusters) /\ r.ki >= 1
        /\ \A o \in OpenSessions(w) :
              \A id \in rows : run[o].tx_keywords[id] = NullId
        /\ LET pos == NextPosition(r.clusters, r.ci, r.ki)
           IN  run' = [run EXCEPT
                   ![w].tx_keywords = [id \in KeywordIds |->
                       IF id \in rows THEN cluster_id
                       ELSE r.tx_keywords[id]],
                   ![w].updates = r.updates + 1,
                   ![w].wrote = TRUE,
                   ![w].ci = pos.ci, ![w].ki = pos.ki]
        /\ UNCHANGED <<keyword_cluster_id, clusters_table, clock,
                       min_cluster_size, nruns, created, seeded, selection, naming,
                       securityVars>>

\* Mutant: keywords_processed counts the keywords placed in a cluster.
SummaryOfAssigned(clusters, keywords) ==
    [clusters_created |-> Len(clusters),
     keywords_processed |->
         SumSeq([c \in DOMAIN clusters |-> clusters[c].size]),
     clusters |-> clusters]

\* The summary built at lines 302-318.
Summary(clusters, keywords) ==
    [clusters_created |-> Len(clusters),
     keywords_processed |-> Len(keywords),
     clusters |-> clusters]

\* session.commit(), and process_keywords returns its summary.
SaveCommit(w) ==
    LET r == run[w]
    IN  /\ r.pc = "saving" /\ r.ci > Len(r.clusters)
        /\ clusters_table' = clusters_table \cup r.tx_clusters
        /\ keyword_cluster_id' = AfterCommit(keyword_cluster_id, r.tx_keywords)
        /\ run' = [run EXCEPT
               ![w].pc = "done",
               ![w].tx_clusters = {}, ![w].tx_keywords = NoWrites,
               ![w].result = Summary(r.clusters, r.keywords)]
        /\ UNCHANGED <<clock, min_cluster_size, nruns, created, seeded, selection, naming,
                       securityVars>>

\* A statement of the session raises (the store fails, or the INSERT hits a
\* duplicate key): the with-block is left without commit, save_clusters
\* and process_keywords re-raise and their locals are gone.
SaveRaises(w) ==
    LET r == run[w]
    IN  /\ r.pc = "saving"
        /\ keyword_cluster_id' = AfterRollback(keyword_cluster_id, r.tx_keywords)
        /\ clusters_table' = clusters_table
        /\ run' = [run EXCEPT ![w].pc = "failed", ![w].error = "save",
                              ![w].labels = <<>>,
                              ![w].clusters = <<>>, ![w].cluster_ids = <<>>,
                              ![w].updates = 0,
                              ![w].ci = 0, ![w].ki = 0,
                              ![w].tx_clusters = {},
                              ![w].tx_keywords = NoWrites]
        /\ UNCHANGED <<clock, min_cluster_size, nruns, created, seeded, selection, naming,
                       securityVars>>

\* One worker process invokes process_keywords again and again.
Next ==
    \/ /\ nruns < MaxRuns
       /\ Fetch("w1") \/ FetchRaises("w1")
    \/ ComputeRaises("w1")
    \/ ClusterTooFew("w1")
    \/ Cluster("w1")
    \/ SaveInsert("w1")
    \/ SaveUpdate("w1")
    \/ SaveCommit("w1")
    \/ SaveRaises("w1")

Spec == Init /\ [][Next]_vars

\* The steps of an invocation after the fetch.  process_keywords is
\* synchronous, single-threaded code: once invoked, the interpreter goes on
\* to the next statement until the call returns or raises.
Advance(w) ==
    \/ ComputeRaises(w)
    \/ ClusterTooFew(w)
    \/ Cluster(w)
    \/ SaveInsert(w)
    \/ SaveUpdate(w)
    \/ SaveCommit(w)
    \/ SaveRaises(w)


\* Two worker processes invoke process_keywords once each, w1 first; the
\* invocations overlap or follow each other.
FirstInvocation(w) ==
    /\ run[w].pc = "idle"
    /\ w = "w2" => run["w1"].pc # "idle"

NextTwoWorkers ==
    \E w \in Workers :
        \/ /\ FirstInvocation(w)
           /\ Fetch(w) \/ FetchRaises(w)
        \/ ComputeRaises(w)
        \/ ClusterTooFew(w)
        \/ Cluster(w)
        \/ SaveInsert(w)
        \/ SaveUpdate(w)
        \/ SaveCommit(w)
        \/ SaveRaises(w)

TwoWorkersSpec == Init /\ [][NextTwoWorkers]_vars

\* One invocation of process_keywords by one worker process, which goes on
\* until the call returns or raises.
NextInvocation ==
    \/ /\ FirstInvocation("w1")
       /\ Fetch("w1") \/ FetchRaises("w1")
    \/ ComputeRaises("w1")
    \/ ClusterTooFew("w1")
    \/ Cluster("w1")
    \/ SaveInsert("w1")
    \/ SaveUpdate("w1")
    \/ SaveCommit("w1")
    \/ SaveRaises("w1")

FairSpec == Init /\ [][NextInvocation]_vars /\ WF_vars(Advance("w1"))

(***************************************************************************)
(* The documented example: one invocation for organization o3, whose six   *)
(* keywords are three pairs sharing vocabulary.  Some of them may have     *)
(* been clustered by an earlier invocation.                                *)
(***************************************************************************)
ExampleScopes == {<<"o3", NullText>>}

ExampleIds == {id \in KeywordIds : KeywordRow(id).org_id = "o3"}

\* The cluster of an earlier invocation, constructed before second 0.
EarlierId == ClusterId(0, -1)

RECURSIVE TermsOf(_)
TermsOf(S) ==
    IF S = {} THEN <<>>
    ELSE LET id == CHOOSE m \in S : \A o \in S : m <= o
         IN  <<KeywordRow(id).term>> \o TermsOf(S \ {id})

InitExample ==
    /\ min_cluster_size \in MinClusterSizes
    /\ \E S \in SUBSET ExampleIds :
          /\ S = {} \/ Cardinality(S) >= min_cluster_size
          /\ keyword_cluster_id =
                 [id \in KeywordIds |-> IF id \in S THEN EarlierId ELSE NullId]
          /\ clusters_table =
                 IF S = {} THEN {}
                 ELSE {[id |-> EarlierId, name |-> <<"Cluster:">>,
                        description |-> [text |-> "", count |-> 0,
                                         terms |-> <<>>, ellipsis |-> FALSE],
                        keywords |-> TermsOf(S),
                        org_id |-> "o3", project_id |-> NullText]}
    /\ run = [w \in Workers |-> IdleRun]
    /\ clock = 0
    /\ nruns = 0
    /\ created = {}
    /\ seeded = <<>>
    /\ selection = NoSelection
    /\ naming = NoNaming
    /\ signed_urls = <<>>
    /\ validation = [c \in Callers |-> IdleValidation]
    /\ accepted = <<>>

NextExample ==
    \/ run["w1"].pc = "idle" /\ FetchIn("w1", ExampleScopes)
    \/ ClusterTooFew("w1")
    \/ Cluster("w1")
    \/ SaveInsert("w1")
    \/ SaveUpdate("w1")
    \/ SaveCommit("w1")

ExampleSpec == InitExample /\ [][NextExample]_vars

(***************************************************************************)
(* The choice of k in cluster_keywords (lines 119-139), step by step, on   *)
(* keyword lists of every length up to MaxKeywords and on lengths that     *)
(* reach max_clusters.  The first MaxFreeSamples inertias of a call are    *)
(* any values; later ones do not rise, as a further cluster lowers the     *)
(* inertia of a converged fit.                                             *)
(***************************************************************************)
LargeKeywordCounts == {2 * max_clusters - 1, 2 * max_clusters, 3 * max_clusters}

KeywordCounts == (1..MaxKeywords) \cup LargeKeywordCounts

InitElbow ==
    /\ keyword_cluster_id = [id \in KeywordIds |-> NullId]
    /\ clusters_table = {}
    /\ run = [w \in Workers |-> IdleRun]
    /\ clock = 0
    /\ min_cluster_size \in MinClusterSizes
    /\ nruns = 0
    /\ created = {}
    /\ seeded = <<>>
    /\ \E n \in KeywordCounts :
          selection = [NoSelection EXCEPT !.pc = "called", !.n_keywords = n]
    /\ naming = NoNaming
    /\ signed_urls = <<>>
    /\ validation = [c \in Callers |-> IdleValidation]
    /\ accepted = <<>>

elbowFrame == <<keyword_cluster_id, clusters_table, run, clock,
                min_cluster_size, nruns, created, seeded, naming,
                securityVars>>

\* Lines 119-122: too few keywords, cluster_keywords returns [].
SelectTooFew ==
    /\ selection.pc = "called"
    /\ TooFewKeywords(selection.n_keywords, min_cluster_size)
    /\ selection' = [selection EXCEPT !.pc = "returned"]
    /\ UNCHANGED elbowFrame

\* Lines 125-131: max_k, the empty inertias list, k_values.
SelectCandidates ==
    /\ selection.pc = "called"
    /\ ~TooFewKeywords(selection.n_keywords, min_cluster_size)
    /\ selection' = [selection EXCEPT
           !.pc = "fitting",
           !.k_values = KValues(selection.n_keywords, min_cluster_size),
           !.inertias = <<>>]
    /\ UNCHANGED elbowFrame

\* The inertia the next fit may report.
NextInertias(inertias) ==
    IF Len(inertias) < MaxFreeSamples THEN 0..MaxInertia
    ELSE 0..inertias[Len(inertias)]

\* Lines 133-136: one pass of the loop over k_values.
SelectFit ==
    /\ selection.pc = "fitting"
    /\ Len(selection.inertias) < Len(selection.k_values)
    /\ \E inertia \in NextInertias(selection.inertias) :
          selection' = [selection EXCEPT
              !.inertias = Append(selection.inertias, inertia)]
    /\ UNCHANGED elbowFrame

\* Line 139: optimal_k = self._find_elbow_point(k_values, inertias).
SelectElbow ==
    /\ selection.pc = "fitting"
    /\ Len(selection.inertias) = Len(selection.k_values)
    /\ selection' = [selection EXCEPT
           !.pc = "selected",
           !.optimal_k = find_elbow_point(selection.k_values,
                                          selection.inertias)]
    /\ UNCHANGED elbowFrame

NextElbow == SelectTooFew \/ SelectCandidates \/ SelectFit \/ SelectElbow

ElbowSpec == InitElbow /\ [][NextElbow]_vars

(***************************************************************************)
(* _generate_cluster_name on its own: the member lists it may be called    *)
(* with, which hold at least min_cluster_size keywords.                    *)
(***************************************************************************)
MaxMembers == 3

\* Member terms: short words only, mixed case, shared words, more than
\* three long words.
NameTerms ==
    {<<"AI">>, <<"ml", "ai">>, <<"Running", "shoes">>,
     <<"shoes", "running", "shop">>, <<"best", "trail", "running", "shoes">>,
     <<"go", "trail">>}

MemberLists ==
    UNION {[1..n -> {[term |-> t] : t \in NameTerms}] :
              n \in min_cluster_size..MaxMembers}

InitName ==
    /\ keyword_cluster_id = [id \in KeywordIds |-> NullId]
    /\ clusters_table = {}
    /\ run = [w \in Workers |-> IdleRun]
    /\ clock = 0
    /\ min_cluster_size \in MinClusterSizes
    /\ nruns = 0
    /\ created = {}
    /\ seeded = <<>>
    /\ selection = NoSelection
    /\ \E cluster_kws \in MemberLists :
          naming = [NoNaming EXCEPT !.pc = "called", !.keywords = cluster_kws]
    /\ signed_urls = <<>>
    /\ validation = [c \in Callers |-> IdleValidation]
    /\ accepted = <<>>

\* Line 162: name=self._generate_cluster_name(cluster_keywords).
GenerateName ==
    /\ naming.pc = "called"
    /\ naming' = [naming EXCEPT
           !.pc = "named", !.name = generate_cluster_name(naming.keywords)]
    /\ UNCHANGED <<keyword_cluster_id, clusters_table, run, clock,
                   min_cluster_size, nruns, created, seeded, selection,
                   securityVars>>

NextName == GenerateName

NameSpec == InitName /\ [][NextName]_vars

(***************************************************************************)
(* SecurityWorker (apps/workers/security_worker/main.py): signed URLs.     *)
(* A text is kept as the parts it is formatted from.  hmac and md5 are     *)
(* taken as injective.                                                     *)
(***************************************************************************)
\* self.secret_key
secret_key == "your-secret-key-here"

\* The arguments create_signed_url is called with.
Resources == {<<"image", "post_123">>}
ExpiresInHours == {0, 1}
PermissionLists == {<<"read">>}

\* The microsecond part of a reading of datetime.now().
Microseconds == {0, 500000}

\* datetime.now() + timedelta(hours=expires_in_hours)
PlusHours(now, hours) == [now EXCEPT !.second = @ + 3600 * hours]

\* f"{x}" of a float: the integer part, a point and the fraction, also
\* when the fraction is 0.
FormatFloat(t) ==
    [integer |-> t.second, point |-> ".", fraction |-> t.microsecond]

\* f"{n}" and str(n) of an int: the digits only.
FormatInt(n) == [integer |-> n]

\* int(text) of a text of digits.
ParseInt(text) == text.integer

\* Mutant: the signature is taken over the integer timestamp.
SignedExpiresTruncated(expires_at) == FormatInt(expires_at.second)

\* Line 479: the signature of a new URL is taken over
\* f"{expires_at.timestamp()}", a float.
SignedExpires(expires_at) == FormatFloat(expires_at)

\* f"{path}:{expires}:{','.join(permissions)}"
SignatureData(path, expires_text, permissions) ==
    <<path, ":", expires_text, ":", permissions>>

\* hmac.new(key, data, sha256).hexdigest()
Hmac(key, data) == <<"hmac-sha256", key, data>>

\* Lines 476-493: the URL with its query parameters; 'expires' is
\* int(expires_at.timestamp()) written as text.
BuildUrl(resource, expires_at, permissions) ==
    [path |-> resource,
     signature |-> Hmac(secret_key,
                        SignatureData(resource, SignedExpires(expires_at),
                                      permissions)),
     expires |-> FormatInt(expires_at.second),
     permissions |-> permissions]

\* f"url_{hashlib.md5(url.encode()).hexdigest()}"
UrlId(url) == <<"url", url>>

\* _get_signed_url_access_count and _get_signed_url_max_accesses: the
\* column of the row, or the default when there is no row.
AccessCountOf(table, id) ==
    IF id \in DOMAIN table THEN table[id].access_count ELSE 0

MaxAccessesOf(table, id) ==
    IF id \in DOMAIN table THEN table[id].max_accesses ELSE 1

\* Line 534: datetime.now().timestamp() > expires
Expired(now, expires) ==
    \/ now.second > expires
    \/ now.second = expires /\ now.microsecond > 0

\* Lines 538-544: the signature recomputed from the parsed URL.
ExpectedSignature(url) ==
    Hmac(secret_key,
         SignatureData(url.path, FormatInt(ParseInt(url.expires)),
                       url.permissions))

clusterVars == <<keyword_cluster_id, clusters_table, run, min_cluster_size,
                 nruns, created, seeded, selection, naming>>

InitSignedUrl ==
    /\ keyword_cluster_id = [id \in KeywordIds |-> NullId]
    /\ clusters_table = {}
    /\ run = [w \in Workers |-> IdleRun]
    /\ clock = 0
    /\ min_cluster_size = default_min_cluster_size
    /\ nruns = 0
    /\ created = {}
    /\ seeded = <<>>
    /\ selection = NoSelection
    /\ naming = NoNaming
    /\ signed_urls = <<>>
    /\ validation = [c \in Callers |-> IdleValidation]
    /\ accepted = <<>>

\* create_signed_url with _save_signed_url: INSERT ... ON CONFLICT (id) DO
\* UPDATE SET access_count, status.
CreateSignedUrl ==
    \E resource \in Resources, hours \in ExpiresInHours,
       max_accesses \in 0..MaxAccesses, permissions \in PermissionLists,
       second \in clock..MaxClock, microsecond \in Microseconds :
        LET now == [second |-> second, microsecond |-> microsecond]
            url == BuildUrl(resource, PlusHours(now, hours), permissions)
            id == UrlId(url)
        IN  /\ id \in DOMAIN signed_urls
                  \/ Cardinality(DOMAIN signed_urls) < MaxUrls
            /\ signed_urls' =
                   IF id \in DOMAIN signed_urls
                   THEN [signed_urls EXCEPT ![id].access_count = 0]
                   ELSE (id :> [url |-> url, access_count |-> 0,
                                max_accesses |-> max_accesses])
                            @@ signed_urls
            /\ accepted' = IF id \in DOMAIN accepted THEN accepted
                           ELSE (id :> 0) @@ accepted
            /\ clock' = second
            /\ UNCHANGED <<clusterVars, validation>>

\* A call of validate_signed_url returns.
Returns(c, url, result) ==
    [validation EXCEPT ![c] =
        [IdleValidation EXCEPT !.url = url, !.result = result,
                               !.calls = validation[c].calls + 1]]

\* One step of validate_signed_url by caller c on a URL that
\* create_signed_url returned: the checks of expiry and signature with the
\* SELECT of access_count; the SELECT of max_accesses; the comparison with
\* the UPDATE.  Each statement runs in a connection of its own.
ValidateStep(c) ==
    LET v == validation[c]
    IN  /\ v.pc = "idle" => v.calls < MaxCalls
        /\ \/ /\ v.pc = "idle"
              /\ \E id \in DOMAIN signed_urls, second \in clock..MaxClock,
                    microsecond \in Microseconds :
                    LET url == signed_urls[id].url
                        now == [second |-> second,
                                microsecond |-> microsecond]
                    IN  /\ clock' = second
                        /\ validation' =
                               IF Expired(now, ParseInt(url.expires))
                               THEN Returns(c, url, "False")
                               ELSE IF url.signature # ExpectedSignature(url)
                               THEN Returns(c, url, "False")
                               ELSE [validation EXCEPT
                                        ![c].pc = "count_read",
                                        ![c].url = url,
                                        ![c].current_count =
                                            AccessCountOf(signed_urls,
                                                          UrlId(url))]
              /\ UNCHANGED <<signed_urls, accepted>>
           \/ /\ v.pc = "count_read"
              /\ validation' = [validation EXCEPT
                     ![c].pc = "max_read",
                     ![c].max_accesses =
                         MaxAccessesOf(signed_urls, UrlId(v.url))]
              /\ UNCHANGED <<signed_urls, accepted, clock>>
           \/ /\ v.pc = "max_read"
              /\ IF v.current_count >= v.max_accesses
                 THEN /\ validation' = Returns(c, v.url, "False")
                      /\ UNCHANGED <<signed_urls, accepted>>
                 ELSE /\ signed_urls' =
                             [signed_urls EXCEPT
                                 ![UrlId(v.url)].access_count = @ + 1]
                      /\ accepted' =
                             [accepted EXCEPT ![UrlId(v.url)] = @ + 1]
                      /\ validation' = Returns(c, v.url, "True")
              /\ UNCHANGED clock
        /\ UNCHANGED clusterVars

NextSignedUrl == CreateSignedUrl \/ \E c \in Callers : ValidateStep(c)

SignedUrlSpec == InitSignedUrl /\ [][NextSignedUrl]_vars

(***************************************************************************)
(* Properties                                                              *)
(***************************************************************************)
StoreUnchanged ==
    /\ keyword_cluster_id' = keyword_cluster_id
    /\ clusters_table' = clusters_table

\* Worker w takes a step of its current invocation.
Steps(w) == run'[w] # run[w] /\ run'[w].no = run[w].no

\* save_clusters of the invocation issued at least one INSERT and one UPDATE.
IssuedWrites(r) == r.wrote

ClusterTerms(cluster) == Range(cluster.keywords)

\* C1: every keyword whose cluster reference is set refers to an existing
\* cluster row, in the committed store (also after a session failed
\* partway) and in the view of every open session.
C1_ValidReferences ==
    /\ \A id \in KeywordIds :
          keyword_cluster_id[id] # NullId =>
              \E row \in clusters_table : row.id = keyword_cluster_id[id]
    /\ \A w \in Workers : \A id \in KeywordIds :
          run[w].tx_keywords[id] # NullId =>
              \E row \in clusters_table \cup run[w].tx_clusters :
                  row.id = run[w].tx_keywords[id]

\* A session failed after an INSERT and an UPDATE, and another keyword
\* reference is committed.
C1_Witness ==
    \E w \in Workers :
        /\ run[w].pc = "failed" /\ run[w].error = "save"
        /\ IssuedWrites(run[w])
        /\ \E id \in KeywordIds : keyword_cluster_id[id] # NullId

\* C2 (as claimed): every keyword that references a cluster belongs to the
\* cluster's organization and, for a project-scoped cluster, to its project.
C2_SameScope ==
    \A id \in KeywordIds : \A row \in clusters_table :
        row.id = keyword_cluster_id[id] =>
            /\ row.org_id = KeywordRow(id).org_id
            /\ row.project_id # NullText =>
                   row.project_id = KeywordRow(id).project_id

\* C3: the writes of one invocation are atomic.  While save_clusters runs,
\* and when it fails, the committed store does not change; when it commits,
\* every cluster row of the invocation is in the clusters table and every
\* row matched by one of its UPDATEs carries its cluster id.
C3_Atomic ==
    [][\A w \in Workers :
          (Steps(w) /\ run[w].pc = "saving") =>
              /\ run'[w].pc # "done" => StoreUnchanged
              /\ run'[w].pc = "done" =>
                    \A c \in DOMAIN run[w].clusters :
                       LET cluster == run[w].clusters[c]
                       IN  /\ ClusterRow(cluster, run[w].org_id,
                                         run[w].project_id) \in clusters_table'
                           /\ \A k \in DOMAIN cluster.keywords :
                                 \A id \in UpdateMatches(cluster.keywords[k],
                                                         run[w].org_id) :
                                    keyword_cluster_id'[id] = cluster.id]_vars

\* One invocation committed clusters, another failed after issuing writes.
C3_Witness ==
    \E w, o \in Workers :
        /\ run[w].pc = "done" /\ run[w].result.clusters_created >= 1
        /\ run[o].pc = "failed" /\ run[o].error = "save"
        /\ IssuedWrites(run[o])
        /\ clusters_table # {}

\* C4: the clusters returned by cluster_keywords hold only input terms, and
\* no term is in two of them.
C4_PartialPartition ==
    \A w \in Workers :
        LET clusters == run[w].clusters
        IN  /\ \A c \in DOMAIN clusters :
                  ClusterTerms(clusters[c]) \subseteq
                      Range(Terms(run[w].keywords))
            /\ \A c, d \in DOMAIN clusters :
                  c # d => ClusterTerms(clusters[c])
                               \cap ClusterTerms(clusters[d]) = {}

\* Two clusters were returned for an input in which a term occurs twice.
C4_Witness ==
    \E w \in Workers :
        /\ Len(run[w].clusters) = 2
        /\ \E a, b \in DOMAIN run[w].keywords :
              a # b /\ run[w].keywords[a].term = run[w].keywords[b].term

\* C5: every returned cluster and every persisted cluster row has at least
\* min_cluster_size members, and size is the number of member terms.
C5_MinSize ==
    /\ \A w \in Workers : \A c \in DOMAIN run[w].clusters :
          /\ run[w].clusters[c].size >= min_cluster_size
          /\ run[w].clusters[c].size = Len(run[w].clusters[c].keywords)
    /\ \A row \in clusters_table : Len(row.keywords) >= min_cluster_size

\* A cluster was persisted by an invocation that dropped a smaller group.
C5_Witness ==
    \E w \in Workers :
        /\ run[w].pc = "done" /\ run[w].result.clusters_created = 1
        /\ run[w].result.clusters[1].size < run[w].result.keywords_processed
        /\ \E row \in clusters_table : row.id = run[w].result.clusters[1].id

\* C6: with fewer keywords than min_cluster_size, cluster_keywords returns
\* the empty list without a fit, and the invocation changes no keyword's
\* cluster reference.
C6_TooFewIsNoop ==
    /\ [](\A w \in Workers :
            (run[w].pc \in {"saving", "done"}
                /\ Len(run[w].keywords) < min_cluster_size) =>
                /\ run[w].clusters = <<>>
                /\ run[w].fits = 0
                /\ run[w].tx_keywords = NoWrites)
    /\ [][\A w \in Workers :
            (Steps(w) /\ Len(run[w].keywords) < min_cluster_size) =>
                keyword_cluster_id' = keyword_cluster_id]_vars

\* An invocation on one or two keywords, fewer than min_cluster_size, has
\* returned.
C6_Witness ==
    \E w \in Workers :
        /\ run[w].pc = "done" /\ run[w].embedded
        /\ Len(run[w].keywords) >= 1
        /\ Len(run[w].keywords) < min_cluster_size

\* C7 (as claimed): an invocation that fetched between 1 and
\* min_cluster_size - 1 keywords, and met no store failure, returns the zero
\* summary, raises nothing and attempts no clustering.
C7_TooFewNeverRaises ==
    \A w \in Workers :
        (/\ run[w].pc \in {"done", "failed"}
         /\ run[w].error \notin {"fetch", "save"}
         /\ Len(run[w].keywords) >= 1
         /\ Len(run[w].keywords) < min_cluster_size) =>
            /\ run[w].pc = "done"
            /\ run[w].result.clusters_created = 0
            /\ run[w].result.clusters = <<>>
            /\ run[w].fits = 0

\* C8: when the fetch returns no keyword, process_keywords returns the zero
\* summary without embedding, clustering or writing.
C8_EmptyFetch ==
    /\ [](\A w \in Workers :
            (run[w].no > 0 /\ run[w].error # "fetch"
                /\ run[w].keywords = <<>>) =>
                /\ run[w].pc = "done"
                /\ run[w].result = [clusters_created |-> 0,
                                    keywords_processed |-> 0,
                                    clusters |-> <<>>]
                /\ ~run[w].embedded /\ run[w].fits = 0
                /\ run[w].cluster_ids = <<>>
                /\ run[w].tx_clusters = {} /\ run[w].tx_keywords = NoWrites)
    /\ [][\A w \in Workers :
            (run'[w].no # run[w].no /\ run'[w].keywords = <<>>) =>
                StoreUnchanged]_vars

\* A second invocation for a scope whose keywords are all assigned.
C8_Witness ==
    \E w \in Workers :
        /\ run[w].pc = "done" /\ run[w].keywords = <<>>
        /\ \E id \in KeywordIds :
              /\ KeywordRow(id).org_id = run[w].org_id
              /\ keyword_cluster_id[id] # NullId
        /\ \A id \in KeywordIds :
              KeywordRow(id).org_id = run[w].org_id =>
                  keyword_cluster_id[id] # NullId

\* Invocation r has gone through cluster_keywords on six keywords with
\* min_cluster_size = 2.
SixKeywordsClustered(r) ==
    /\ r.pc \in {"saving", "done"}
    /\ Len(r.keywords) = 6
    /\ min_cluster_size = 2

\* C9 (as claimed): six keywords with min_cluster_size = 2 give k = 3 and
\* three clusters of size 2.
C9_ThreeClusters ==
    \A w \in Workers :
        SixKeywordsClustered(run[w]) =>
            /\ run[w].optimal_k = 3
            /\ Len(run[w].clusters) = 3
            /\ \A c \in DOMAIN run[w].clusters : run[w].clusters[c].size = 2

\* C9 (amended): six keywords with min_cluster_size = 2 give the candidates
\* 2 and 3, hence two inertia samples, and the smallest candidate k = 2 is
\* selected; at most two clusters are returned.
C9_TwoClusters ==
    \A w \in Workers :
        SixKeywordsClustered(run[w]) =>
            /\ KValues(6, min_cluster_size) = <<2, 3>>
            /\ run[w].fits = 3
            /\ run[w].optimal_k = 2
            /\ Len(run[w].clusters) <= 2

\* The six keywords of the example were split into two clusters of three.
C9_Witness ==
    \E w \in Workers :
        /\ SixKeywordsClustered(run[w])
        /\ Len(run[w].clusters) = 2
        /\ \A c \in DOMAIN run[w].clusters : run[w].clusters[c].size = 3

\* C10 (as claimed): no two clusters ever constructed carry the same id.
C10_UniqueIds ==
    \A a, b \in created : a.id = b.id => a.run = b.run

\* The rows an invocation fetched.
FetchedIds(r) == {r.keywords[i].id : i \in DOMAIN r.keywords}

\* The persisted cluster rows of organization org_id that list the term of
\* keyword row id as a member.
RowsListing(id, org_id) ==
    {row \in clusters_table :
        row.org_id = org_id /\ KeywordRow(id).term \in Range(row.keywords)}

\* C11: no lock on a scope.  While an invocation runs, another worker can
\* invoke process_keywords for the same scope and fetches the same keywords
\* as unclustered; when both invocations have committed a cluster holding
\* the term of a keyword both fetched, the keyword is listed in two
\* persisted cluster rows and its reference is the id of one of them.
C11_DoubleAssignment ==
    /\ \A w, o \in Workers :
          (w # o /\ run[w].pc = "idle" /\ Active(o)) =>
              /\ ENABLED FetchIn(w, {<<run[o].org_id, run[o].project_id>>})
              /\ FetchedIds(run[o]) \subseteq
                     FetchMatches(keyword_cluster_id, run[o].org_id,
                                  run[o].project_id)
    /\ \A w, o \in Workers :
       \A id \in FetchedIds(run[w]) \cap FetchedIds(run[o]) :
          (/\ w # o /\ run[w].pc = "done" /\ run[o].pc = "done"
           /\ \E c \in DOMAIN run[w].clusters :
                 KeywordRow(id).term \in ClusterTerms(run[w].clusters[c])
           /\ \E c \in DOMAIN run[o].clusters :
                 KeywordRow(id).term \in ClusterTerms(run[o].clusters[c])) =>
              /\ Cardinality(RowsListing(id, run[w].org_id)) >= 2
              /\ \E row \in RowsListing(id, run[w].org_id) :
                    /\ keyword_cluster_id[id] = row.id
                    /\ \E other \in RowsListing(id, run[w].org_id) :
                          other.id # keyword_cluster_id[id]

\* Two overlapping invocations of one scope both fetched a keyword and both
\* committed a cluster that lists it.
C11_Witness ==
    \E id \in KeywordIds :
        /\ \A w \in Workers :
              /\ run[w].pc = "done"
              /\ id \in FetchedIds(run[w])
              /\ run[w].org_id = "o1" /\ run[w].project_id = "p1"
              /\ \E c \in DOMAIN run[w].clusters :
                    KeywordRow(id).term \in ClusterTerms(run[w].clusters[c])
        /\ Cardinality(RowsListing(id, "o1")) = 2
        /\ keyword_cluster_id[id] # NullId

\* C12: an invocation whose fetch or embedding stage fails raises: it
\* returns no summary, has inserted no cluster row and changed no keyword
\* reference.  An invocation whose terms leave the vocabulary empty does
\* fail so.  A failure of save_clusters is raised too, with no summary.
C12_FailureRaises ==
    /\ [](\A w \in Workers :
            /\ run[w].pc = "failed" =>
                  /\ run[w].result = NoResult
                  /\ run[w].error \in
                         {"fetch", "embedding", "clustering", "save"}
            /\ (/\ run[w].pc = "failed"
                /\ run[w].error \in {"fetch", "embedding"}) =>
                  /\ run[w].fits = 0 /\ run[w].clusters = <<>>
                  /\ run[w].cluster_ids = <<>>
                  /\ run[w].tx_clusters = {} /\ run[w].tx_keywords = NoWrites
            /\ (/\ run[w].keywords # <<>> /\ run[w].pc # "fetched"
                /\ Vocabulary(Terms(run[w].keywords)) = {}) =>
                  run[w].pc = "failed" /\ run[w].error = "embedding")
    /\ [][\A w \in Workers :
            (run'[w] # run[w] /\ run'[w].pc = "failed") => StoreUnchanged]_vars

\* The embedding stage of an invocation failed while the store holds the
\* clusters of an earlier invocation.
C12_Witness ==
    \E w \in Workers :
        /\ run[w].pc = "failed" /\ run[w].error = "embedding"
        /\ run[w].keywords # <<>>
        /\ clusters_table # {}
        /\ \E id \in KeywordIds : keyword_cluster_id[id] # NullId

\* The fetched rows that the final fit placed in a group of fewer than
\* min_cluster_size keywords.
Dropped(r) ==
    {r.keywords[i].id : i \in {j \in DOMAIN r.labels :
        Len(ClusterIndices(r.labels, r.labels[j])) < min_cluster_size}}

\* C13: the keywords of a group smaller than min_cluster_size are in no
\* returned cluster and are not written by save_clusters; when the
\* invocation returns their cluster reference is empty and the fetch of
\* the scope selects them, and the next invocation for the scope fetches
\* them again.
C13_DroppedStayUnclustered ==
    /\ [](\A w \in Workers : \A id \in Dropped(run[w]) :
            /\ \A c \in DOMAIN run[w].clusters :
                  KeywordRow(id).term \notin ClusterTerms(run[w].clusters[c])
            /\ run[w].tx_keywords[id] = NullId)
    /\ [][\A w \in Workers :
            (Steps(w) /\ run'[w].pc = "done") =>
                \A id \in Dropped(run[w]) :
                   /\ keyword_cluster_id'[id] = NullId
                   /\ id \in FetchMatches(keyword_cluster_id', run[w].org_id,
                                            run[w].project_id)]_vars
    /\ [][\A w \in Workers :
            (/\ run'[w].no # run[w].no /\ run[w].pc = "done"
             /\ run'[w].org_id = run[w].org_id
             /\ run'[w].project_id = run[w].project_id
             /\ run'[w].error # "fetch") =>
                Dropped(run[w]) \subseteq FetchedIds(run'[w])]_vars

\* An invocation persisted a cluster and dropped a keyword.
C13_Witness ==
    \E w \in Workers :
        /\ run[w].pc = "done" /\ run[w].result.clusters_created >= 1
        /\ Dropped(run[w]) # {}
        /\ \E row \in clusters_table : row.id = run[w].clusters[1].id
        /\ \A id \in Dropped(run[w]) : keyword_cluster_id[id] = NullId

RECURSIVE SumOver(_, _, _)
\* The sum of a field over the positions S of a keyword list.
SumOver(keywords, S, field) ==
    IF S = {} THEN 0
    ELSE LET i == CHOOSE m \in S : TRUE
         IN  keywords[i][field] + SumOver(keywords, S \ {i}, field)

\* The positions of the fetched keywords that a cluster lists as members.
MemberPositions(r, cluster) ==
    {i \in DOMAIN r.keywords : r.keywords[i].term \in ClusterTerms(cluster)}

\* C14: the three averages of every returned cluster are the sum of the
\* field over exactly the fetched keywords the cluster lists, divided by
\* the cluster's size, which is the number of those keywords.
C14_Averages ==
    \A w \in Workers : \A c \in DOMAIN run[w].clusters :
        LET cluster == run[w].clusters[c]
            members == MemberPositions(run[w], cluster)
            mean(field) == [sum |-> SumOver(run[w].keywords, members, field),
                            count |-> Cardinality(members)]
        IN  /\ cluster.size = Cardinality(members)
            /\ cluster.avg_search_volume = mean("search_volume")
            /\ cluster.avg_difficulty = mean("difficulty")
            /\ cluster.avg_cpc = mean("cpc")

\* A returned cluster leaves out a fetched keyword with a positive search
\* volume and lists one whose stored difficulty is NULL.
C14_Witness ==
    \E w \in Workers : \E c \in DOMAIN run[w].clusters :
        LET cluster == run[w].clusters[c]
        IN  /\ \E i \in DOMAIN run[w].keywords :
                  /\ i \notin MemberPositions(run[w], cluster)
                  /\ run[w].keywords[i].search_volume > 0
            /\ \E i \in MemberPositions(run[w], cluster) :
                  KeywordRow(run[w].keywords[i].id).difficulty = NullInt
            /\ cluster.avg_difficulty.sum > 0

\* Invocation r has come out of cluster_keywords with its fits done.
Partitioned(r) == r.pc \in {"saving", "done"} /\ r.fits > 0

\* The member lists of the returned clusters, without the cluster ids.
MembershipSets(r) == {r.clusters[c].keywords : c \in DOMAIN r.clusters}

\* C15: two executions on the same ordered keyword list select the same k
\* and return the same number of clusters with the same members; only the
\* cluster ids, which carry the clock second, may differ.
C15_Deterministic ==
    \A w, o \in Workers :
        (/\ Partitioned(run[w]) /\ Partitioned(run[o])
         /\ run[w].keywords = run[o].keywords) =>
            /\ run[w].optimal_k = run[o].optimal_k
            /\ Len(run[w].clusters) = Len(run[o].clusters)
            /\ MembershipSets(run[w]) = MembershipSets(run[o])

\* Two invocations fetched the same three keywords, and both returned a
\* cluster, under different ids.
C15_Witness ==
    /\ \A w \in Workers : run[w].pc = "done" /\ Len(run[w].clusters) = 1
    /\ run["w1"].keywords = run["w2"].keywords
    /\ Len(run["w1"].keywords) = 3
    /\ run["w1"].clusters[1].id # run["w2"].clusters[1].id

\* The positions of the fetched keywords that the final fit placed in a
\* group of at least min_cluster_size.
Placed(r) ==
    {j \in DOMAIN r.labels :
        Len(ClusterIndices(r.labels, r.labels[j])) >= min_cluster_size}

\* C16: in the summary of a returned invocation clusters_created is the
\* length of the returned list and the number of cluster rows the
\* invocation added to the clusters table, keywords_processed is the number
\* of fetched keywords, and the sizes of the returned clusters add up to
\* the number of fetched keywords placed in a cluster, at most
\* keywords_processed.
C16_SummaryConsistent ==
    /\ [](\A w \in Workers :
            run[w].pc = "done" =>
                LET result == run[w].result
                    sizes == [c \in DOMAIN result.clusters |->
                                 result.clusters[c].size]
                IN  /\ result.clusters_created = Len(result.clusters)
                    /\ result.keywords_processed = Len(run[w].keywords)
                    /\ SumSeq(sizes) = Cardinality(Placed(run[w]))
                    /\ SumSeq(sizes) <= result.keywords_processed)
    /\ [][\A w \in Workers :
            (run'[w] # run[w] /\ run'[w].pc = "done") =>
                /\ clusters_table \subseteq clusters_table'
                /\ Cardinality(clusters_table' \ clusters_table)
                       = run'[w].result.clusters_created
                /\ {row.id : row \in clusters_table' \ clusters_table}
                       = {run'[w].result.clusters[c].id :
                             c \in DOMAIN run'[w].result.clusters}]_vars

\* An invocation returned one cluster and left a fetched keyword out.
C16_Witness ==
    \E w \in Workers :
        /\ run[w].pc = "done"
        /\ run[w].result.clusters_created = 1
        /\ run[w].result.keywords_processed = 3
        /\ run[w].result.clusters[1].size = 2
        /\ Cardinality(clusters_table) = 1

\* C18: for N >= min_cluster_size the candidates are exactly the integers
\* 2..max(2, min(max_clusters, N div min_cluster_size)) in increasing order,
\* one inertia is recorded per candidate in that order, and the selected k
\* is one of the candidates, so 2 <= k <= max_clusters = 20.
C18_Candidates ==
    LET n == selection.n_keywords
        quotient == n \div min_cluster_size
        capped == IF quotient > max_clusters THEN max_clusters ELSE quotient
        top == IF capped < 2 THEN 2 ELSE capped
        k_values == selection.k_values
    IN  /\ (selection.pc \in {"fitting", "selected", "returned"}
              /\ n >= min_cluster_size) =>
               /\ selection.pc # "returned"
               /\ Len(k_values) = top - 1
               /\ \A j \in DOMAIN k_values : k_values[j] = j + 1
               /\ Len(selection.inertias) <= Len(k_values)
        /\ selection.pc = "selected" =>
               /\ Len(selection.inertias) = Len(k_values)
               /\ \E j \in DOMAIN k_values : selection.optimal_k = k_values[j]
               /\ 2 <= selection.optimal_k
               /\ selection.optimal_k <= max_clusters
               /\ max_clusters = 20

\* A call on so many keywords that max_clusters caps the candidates, and a
\* k above 2 was selected.
C18_Witness ==
    /\ selection.pc = "selected"
    /\ selection.n_keywords \div min_cluster_size > max_clusters
    /\ Len(selection.k_values) = max_clusters - 1
    /\ selection.optimal_k > 2

\* The second difference of the inertias at position p (from 1).
SecondDifference(inertias, p) ==
    inertias[p + 2] - 2 * inertias[p + 1] + inertias[p]

\* C19: with three or more inertia samples the selected k is the candidate
\* one position after the first position whose second difference is the
\* smallest, and that position is inside the candidate sequence.
C19_ElbowOffset ==
    (selection.pc = "selected" /\ Len(selection.inertias) >= 3) =>
        \E p \in 1..(Len(selection.inertias) - 2) :
            /\ \A q \in 1..(Len(selection.inertias) - 2) :
                  /\ SecondDifference(selection.inertias, p)
                         <= SecondDifference(selection.inertias, q)
                  /\ q < p => SecondDifference(selection.inertias, q)
                                  > SecondDifference(selection.inertias, p)
            /\ p + 1 \in DOMAIN selection.k_values
            /\ selection.optimal_k = selection.k_values[p + 1]

\* Four samples whose smallest second difference is at the second position:
\* the third candidate, k = 4, was selected.
C19_Witness ==
    /\ selection.pc = "selected"
    /\ Len(selection.inertias) = 4
    /\ SecondDifference(selection.inertias, 2)
           < SecondDifference(selection.inertias, 1)
    /\ selection.optimal_k = 4

\* C20: fewer than three inertia samples exist exactly when
\* N div min_cluster_size <= 3, and then the selected k is the smallest
\* candidate, 2; _find_elbow_point returns 2 on no candidates at all.
C20_DefaultSmallest ==
    /\ selection.pc = "selected" =>
          /\ Len(selection.inertias) < 3
                 <=> selection.n_keywords \div min_cluster_size <= 3
          /\ Len(selection.inertias) < 3 =>
                 /\ selection.optimal_k = selection.k_values[1]
                 /\ selection.optimal_k = 2
    /\ find_elbow_point(<<>>, <<>>) = 2

\* Two samples, the second the larger, and k = 2 was selected.
C20_Witness ==
    /\ selection.pc = "selected"
    /\ Len(selection.inertias) = 2
    /\ selection.inertias[1] < selection.inertias[2]
    /\ selection.n_keywords \div min_cluster_size = 3
    /\ selection.optimal_k = 2

InsertStep(w) ==
    /\ run[w].pc = "saving" /\ run'[w].pc = "saving"
    /\ Len(run'[w].cluster_ids) = Len(run[w].cluster_ids) + 1

UpdateStep(w) ==
    /\ run[w].pc = "saving" /\ run'[w].pc = "saving"
    /\ run[w].ki >= 1
    /\ Len(run'[w].cluster_ids) = Len(run[w].cluster_ids)

\* C21 (as claimed): the persistence of a run has two phases: every Cluster
\* row of the run is inserted before any keyword's cluster reference is
\* set, so no INSERT follows an UPDATE of the same run.
C21_TwoPhases ==
    [][\A w \in Workers : InsertStep(w) => ~run[w].wrote]_vars

\* C21 (amended): every UPDATE of a run sets the reference to the id of a
\* Cluster row that the same session has already inserted and that lists
\* the keyword's term; an INSERT follows the UPDATEs of all earlier
\* clusters of the run, whose references it leaves alone.
C21_InsertBeforeOwnUpdates ==
    [][\A w \in Workers :
          LET r == run[w]
              after == run'[w]
          IN  /\ UpdateStep(w) =>
                   \A id \in KeywordIds :
                      after.tx_keywords[id] # r.tx_keywords[id] =>
                         \E row \in r.tx_clusters :
                            /\ row.id = after.tx_keywords[id]
                            /\ row.id = r.clusters[r.ci].id
                            /\ KeywordRow(id).term \in Range(row.keywords)
              /\ InsertStep(w) =>
                   /\ after.tx_keywords = r.tx_keywords
                   /\ \A c \in 1..(r.ci - 1) :
                         \A t \in Range(r.clusters[c].keywords) :
                            \E id \in KeywordIds :
                               /\ KeywordRow(id).term = t
                               /\ r.tx_keywords[id] # NullId]_vars

\* The second cluster of a run has been inserted after the references to
\* the first were set, and a reference to the second is set.
C21_Witness ==
    \E w \in Workers :
       LET r == run[w]
       IN  /\ r.pc = "saving" /\ Len(r.cluster_ids) = 2
           /\ \E a, b \in KeywordIds :
                 /\ r.tx_keywords[a] = r.cluster_ids[1]
                 /\ r.tx_keywords[b] = r.cluster_ids[2]

(***************************************************************************)
(* The fetch: defaults, selection and order                                *)
(***************************************************************************)
\* What a stored value becomes when only NULL is defaulted.
Defaulted(stored, default) == IF stored = NullInt THEN default ELSE stored

\* C22: the fetch defaults only missing values: a NULL search_volume becomes
\* 0, a NULL difficulty 50 and a NULL cpc 0.0, and every stored value that
\* is not NULL, a 0 included, reaches the clustering stage unchanged.
C22_OnlyNullDefaulted ==
    \A w \in Workers :
       \A i \in DOMAIN run[w].keywords :
          LET kw == run[w].keywords[i]
              row == KeywordRow(kw.id)
          IN  /\ kw.search_volume = Defaulted(row.search_volume, 0)
              /\ kw.difficulty = Defaulted(row.difficulty, 50)
              /\ kw.cpc = Defaulted(row.cpc, 0)

\* The step in which the fetch of worker w returns.
FetchReturns(w) ==
    /\ run'[w].no # run[w].no
    /\ run'[w].error # "fetch"

\* C23: the fetch for (org, project) returns exactly the keywords of org
\* that have no cluster reference and, when project is given, belong to
\* it, each once, in descending order of stored search volume with the
\* NULL volumes last; no keyword of another organization and no clustered
\* keyword is returned.
C23_FetchExact ==
    [][\A w \in Workers :
          FetchReturns(w) =>
             LET r == run'[w]
                 ids == [i \in DOMAIN r.keywords |-> r.keywords[i].id]
                 sv(i) == KeywordRow(ids[i]).search_volume
             IN  /\ \A i, j \in DOMAIN ids : i # j => ids[i] # ids[j]
                 /\ \A id \in KeywordIds :
                       id \in Range(ids) <=>
                          /\ KeywordRow(id).org_id = r.org_id
                          /\ keyword_cluster_id[id] = NullId
                          /\ r.project_id # NullText =>
                                KeywordRow(id).project_id = r.project_id
                 /\ \A i, j \in DOMAIN ids :
                       i < j => \/ sv(j) = NullInt
                                \/ (sv(i) # NullInt /\ sv(i) >= sv(j))]_vars

\* A fetch for one project returned while a keyword of that project is
\* clustered and a keyword of another project of the organization is not.
C23_Witness ==
    \E w \in Workers :
       LET r == run[w]
       IN  /\ r.pc = "fetched" /\ r.project_id # NullText
           /\ r.keywords # <<>>
           /\ \E id \in KeywordIds :
                 /\ KeywordRow(id).org_id = r.org_id
                 /\ KeywordRow(id).project_id = r.project_id
                 /\ keyword_cluster_id[id] # NullId
           /\ \E id \in KeywordIds :
                 /\ KeywordRow(id).org_id = r.org_id
                 /\ KeywordRow(id).project_id # r.project_id
                 /\ keyword_cluster_id[id] = NullId

(***************************************************************************)
(* The cluster name                                                        *)
(***************************************************************************)
\* Where the lower-cased word occurs: (member, position in its term).
Occurrences(cluster_kws, word) ==
    UNION {{<<j, i>> : i \in {p \in DOMAIN cluster_kws[j].term :
                                 Lower(cluster_kws[j].term[p]) = word}} :
              j \in DOMAIN cluster_kws}

\* The lower-cased words of the member terms that are longer than two
\* characters.
LongWords(cluster_kws) ==
    {w \in UNION {{Lower(cluster_kws[j].term[i]) :
                      i \in DOMAIN cluster_kws[j].term} :
                     j \in DOMAIN cluster_kws} : Len(w) > 2}

EarlierPlace(a, b) == a[1] < b[1] \/ (a[1] = b[1] /\ a[2] < b[2])

FirstOccurrence(cluster_kws, word) ==
    CHOOSE a \in Occurrences(cluster_kws, word) :
       \A b \in Occurrences(cluster_kws, word) : a = b \/ EarlierPlace(a, b)

\* Word a comes before word b: it is more frequent, or as frequent and
\* first seen earlier.
RanksBefore(cluster_kws, a, b) ==
    LET count(w) == Cardinality(Occurrences(cluster_kws, w))
    IN  \/ count(a) > count(b)
        \/ /\ count(a) = count(b)
           /\ EarlierPlace(FirstOccurrence(cluster_kws, a),
                           FirstOccurrence(cluster_kws, b))

\* C24: the cluster name is "Cluster: " followed by the at most 3 most
\* frequent lower-cased words of the member terms that are longer than two
\* characters, in descending frequency, ties in order of first occurrence;
\* if no word is longer than two characters it is "Cluster: " followed by
\* the first member term as stored.
C24_Name ==
    naming.pc = "named" =>
       LET cluster_kws == naming.keywords
           long == LongWords(cluster_kws)
           words == Tail(naming.name)
       IN  /\ Head(naming.name) = "Cluster:"
           /\ IF long = {}
              THEN words = cluster_kws[1].term
              ELSE /\ Len(words) = Min(3, Cardinality(long))
                   /\ \A i \in DOMAIN words : words[i] \in long
                   /\ \A i, j \in DOMAIN words :
                         i < j => RanksBefore(cluster_kws, words[i], words[j])
                   /\ \A w \in long \ Range(words) :
                         \A i \in DOMAIN words :
                            RanksBefore(cluster_kws, words[i], w)

\* A name of three words out of four long ones: "go" is too short, the
\* capitalized "Running" counts as "running", which ties with "shoes" and
\* was seen first, and "shop" ties with "trail" and is cut.
C24_Witness ==
    /\ naming.pc = "named"
    /\ naming.keywords = <<[term |-> <<"go", "trail">>],
                           [term |-> <<"Running", "shoes">>],
                           [term |-> <<"shoes", "running", "shop">>]>>
    /\ naming.name = <<"Cluster:", "running", "shoes", "trail">>

(***************************************************************************)
(* Termination and the work of one invocation                              *)
(***************************************************************************)
\* The stages of process_keywords in program order.
StageOrder ==
    {<<"fetched", "saving">>, <<"fetched", "failed">>,
     <<"saving", "done">>, <<"saving", "failed">>}

\* The fits of an invocation on n keywords: one per candidate 2..max_k and
\* the final one.
FitsOn(n, mcs) ==
    LET quotient == n \div mcs
        max_k == IF quotient > max_clusters THEN max_clusters
                 ELSE IF quotient < 2 THEN 2 ELSE quotient
    IN  (max_k - 1) + 1

\* The work done so far by the invocation of worker w.
WorkOfInvocation(w) ==
    LET r == run[w]
        n == Len(r.keywords)
        members == SumSeq([c \in DOMAIN r.clusters |->
                              Len(r.clusters[c].keywords)])
    IN  /\ r.fits > 0 => r.embedded
        /\ r.pc = "fetched" => ~r.embedded /\ r.fits = 0
        /\ (r.pc \in {"saving", "done"} /\ n >= min_cluster_size) =>
              /\ r.fits = FitsOn(n, min_cluster_size)
              /\ r.fits <= (max_clusters - 1) + 1
        /\ (r.pc \in {"saving", "done"} /\ n < min_cluster_size) =>
              r.fits = 0
        /\ r.pc = "saving" =>
              /\ Len(r.cluster_ids) <= Len(r.clusters)
              /\ r.updates <= members
        /\ r.pc = "done" =>
              /\ Len(r.cluster_ids) = Len(r.clusters)
              /\ r.updates = members
              /\ r.result # NoResult

\* C25: every invocation of process_keywords terminates, by returning a
\* summary or by raising; its stages run once, in the order fetch, embed,
\* select k, partition, persist; the selection performs max_k - 1 (at most
\* 19) fits and one final fit; the persistence performs one INSERT per
\* cluster and one UPDATE per member term.
C25_Terminates ==
    /\ \A w \in Workers : Active(w) ~> run[w].pc \in {"done", "failed"}
    /\ [](\A w \in Workers : WorkOfInvocation(w))
    /\ [][\A w \in Workers :
             /\ Active(w) =>
                   /\ run'[w].no = run[w].no
                   /\ run'[w].pc # run[w].pc =>
                         <<run[w].pc, run'[w].pc>> \in StageOrder
                   /\ run'[w].fits >= run[w].fits
                   /\ Len(run'[w].cluster_ids) >= Len(run[w].cluster_ids)
                         \/ run'[w].pc = "failed"
             /\ ~Active(w) =>
                   \/ run'[w] = run[w]
                   \/ run'[w].no = run[w].no + 1]_vars

\* An invocation has returned its summary after two fits, two INSERTs and
\* an UPDATE for each of the five member terms.
C25_Witness ==
    \E w \in Workers :
       /\ run[w].pc = "done" /\ run[w].fits = 2
       /\ Len(run[w].cluster_ids) = 2 /\ run[w].updates = 5
       /\ run[w].result.clusters_created = 2

(***************************************************************************)
(* Stability of an assignment                                              *)
(***************************************************************************)
\* C26: a keyword's cluster assignment is stable: once a committed run has
\* set a keyword's cluster reference, no later run changes it, and a run
\* assigns only keywords that it fetched, whose reference was empty then.
C26_StableAssignment ==
    [][\A id \in KeywordIds :
          /\ keyword_cluster_id[id] # NullId =>
                keyword_cluster_id'[id] = keyword_cluster_id[id]
          /\ keyword_cluster_id'[id] # keyword_cluster_id[id] =>
                \E w \in Workers :
                   run[w].pc = "saving" /\ id \in FetchedIds(run[w])]_vars

(***************************************************************************)
(* The elbow is an inner candidate                                         *)
(***************************************************************************)
\* max_k as cluster_keywords computes it from the number of keywords.
LargestCandidate(n, mcs) ==
    LET quotient == n \div mcs
    IN  IF quotient > max_clusters THEN max_clusters
        ELSE IF quotient < 2 THEN 2 ELSE quotient

\* C27: with at least 3 candidate cluster counts the elbow selection
\* returns neither the smallest candidate, 2, nor the largest, max_k:
\* 2 < k < max_k, whatever the inertias of the candidate fits are.
C27_InnerCandidate ==
    (selection.pc = "selected" /\ Len(selection.k_values) >= 3) =>
        /\ 2 < selection.optimal_k
        /\ selection.optimal_k
              < LargestCandidate(selection.n_keywords, min_cluster_size)

\* Four candidates whose inertias do not fall monotonically, and the
\* selection is the candidate before the largest.
C27_Witness ==
    /\ selection.pc = "selected"
    /\ Len(selection.k_values) = 4
    /\ selection.inertias[2] < selection.inertias[1]
    /\ selection.inertias[2] < selection.inertias[3]
    /\ LargestCandidate(selection.n_keywords, min_cluster_size) = 5
    /\ selection.optimal_k = 4

(***************************************************************************)
(* The number of clusters of a run                                         *)
(***************************************************************************)
\* C28: a run on N >= min_cluster_size keywords creates at most
\* min(max_clusters, N div min_cluster_size) clusters, also when the
\* candidates are floored at k = 2 because N div min_cluster_size < 2.
C28_ClusterCount ==
    \A w \in Workers :
       LET r == run[w]
           n == Len(r.keywords)
           quotient == n \div min_cluster_size
           most == IF quotient > max_clusters THEN max_clusters ELSE quotient
       IN  (r.pc \in {"saving", "done"} /\ n >= min_cluster_size) =>
              /\ Len(r.clusters) <= most
              /\ r.pc = "done" => /\ r.result.clusters_created <= most
                                  /\ Len(r.cluster_ids) <= most

\* A committed run on three keywords with min_cluster_size 2: the quotient
\* is 1, the fits used k = 2, and one cluster was created.
C28_Witness ==
    \E w \in Workers :
       /\ run[w].pc = "done"
       /\ Len(run[w].keywords) = 3 /\ min_cluster_size = 2
       /\ run[w].optimal_k = 2
       /\ Len(run[w].clusters) = 1
       /\ run[w].result.clusters_created = 1

(***************************************************************************)
(* Round trip of a signed URL                                              *)
(***************************************************************************)
\* C29: a URL returned by create_signed_url and validated before its expiry
\* time, while its access count is below max_accesses, is accepted: the
\* signature recomputed from the URL's path, expires and permissions
\* equals the signature computed at creation, and the call returns True.
C29_RoundTrip ==
    \A c \in Callers :
       LET v == validation[c]
           id == UrlId(v.url)
       IN  (/\ v.pc = "idle" /\ v.calls > 0
            /\ id \in DOMAIN signed_urls
            /\ clock < ParseInt(v.url.expires)
            /\ accepted[id] = 0
            /\ signed_urls[id].access_count < signed_urls[id].max_accesses)
           => /\ v.url.signature = ExpectedSignature(v.url)
              /\ v.result = "True"

=============================================================================
